---- MODULE Spec2Model ----
(***************************************************************************)
(* Sogni creatures API.                                                    *)
(*                                                                         *)
(*   Creator (src/unnamed/part_000): a queue of generation jobs in front   *)
(*   of the Sogni client; processRequest enqueues, _moveQueue runs one     *)
(*   job at a time through three awaits (client, projects.create,          *)
(*   waitForCompletion) and settles the job's promise.                     *)
(*                                                                         *)
(*   GET / handler (src/index.js): background removal by a flood fill      *)
(*   seeded on the image border.                                           *)
(*                                                                         *)
(* A state of the model is a point where control is back in the event      *)
(* loop: every action is the synchronous run of one piece of code between  *)
(* two awaits.                                                             *)
(***************************************************************************)
EXTENDS Integers, Sequences, FiniteSets, TLC

\* Number of processRequest calls explored.
MaxJobs == 4

Jobs == 1..MaxJobs

VARIABLES
    queue,        \* Creator.queue: pending jobs, oldest first
    isIdle,       \* Creator.isIdle: the own data property set by the field initialiser
    sogni,        \* this.sogni, the promise of initSogni: "pending", "ready", "failed"
    body,         \* per job: where the _moveQueue activation holding it is suspended
    numJobs,      \* number of processRequest calls made so far
    resolveCalls, \* per job: number of calls of job.resolve
    rejectCalls,  \* per job: number of calls of job.reject
    outcome,      \* per job: how its body ended, "none", "ok", "fail"
    started,      \* jobs in the order their bodies started
    finished      \* jobs in the order their continuations were called

VARIABLES
    fpc,          \* background removal: "off", "read", "loop", "done", "error"
    width,        \* image.bitmap.width
    height,       \* image.bitmap.height
    tolerance,    \* tolerance of the colour test
    orig,         \* the decoded result image, pixel <<x, y>> -> <<r, g, b, a>>
    image,        \* image.bitmap as the fill changes it
    bgRGBA,       \* colour sampled at pixel (0,0)
    visited,      \* the visited mask, as the set of marked pixels
    floodQueue,   \* the fill's queue of coordinates
    cleared,      \* pixels on which setPixelColor was called
    tests,        \* per pixel: number of times its colour was read and tested
    frontOnly     \* every coordinate so far was taken from the front of the queue

VARIABLES
    alive,        \* FALSE once process.exit ran
    clock,        \* Date.now(), in half TTLs
    cache,        \* the NodeCache: key -> entry, or NoEntry
    sharpCalls,   \* per guide image: number of sharp(inputPath) calls
    numReqs,      \* number of GET / requests received so far
    hpc,          \* per request: the await its handler is suspended at
    animal,       \* per request: the animal parameter
    valid,        \* per request: whether the three parameters pass validation
    held,         \* per request: blurredBuffer
    resp,         \* per request: the response returned
    lookup        \* per request: what its cache lookup found, and who had been answered

qvars == <<queue, isIdle, sogni, body, numJobs, resolveCalls, rejectCalls,
           outcome, started, finished>>

fvars == <<fpc, width, height, tolerance, orig, image, bgRGBA, visited,
           floodQueue, cleared, tests, frontOnly>>

hvars == <<alive, clock, cache, sharpCalls, numReqs, hpc, animal, valid, held,
           resp, lookup>>

Executing == {"sogni", "create", "wait"}

\* ---------------------------------------------------------------- Creator

\* Early return of _moveQueue. `isIdle` is the instance's data property: the
\* class field definition shadows the prototype getter of the same name.
BlockedIgnoringIdle(idle, q) == Len(q) = 0
Blocked(idle, q) == ~idle \/ Len(q) = 0

\* this.queue.shift(): <<the job taken, the rest>>
popLast(q) == <<q[Len(q)], SubSeq(q, 1, Len(q) - 1)>>
shift(q) == <<Head(q), Tail(q)>>

\* _moveQueue up to its first await, as a function of the Creator's fields.
moveQueueNoMark(q, idle, b, st) ==
    IF Blocked(idle, q)
    THEN [queue |-> q, isIdle |-> idle, body |-> b, started |-> st]
    ELSE LET job == shift(q)[1]
         IN  [queue   |-> shift(q)[2],
              isIdle  |-> idle,
              body    |-> [b EXCEPT ![job] = "sogni"],
              started |-> Append(st, job)]
moveQueue(q, idle, b, st) ==
    IF Blocked(idle, q)
    THEN [queue |-> q, isIdle |-> idle, body |-> b, started |-> st]
    ELSE LET job == shift(q)[1]
         IN  [queue   |-> shift(q)[2],
              isIdle  |-> FALSE,
              body    |-> [b EXCEPT ![job] = "sogni"],
              started |-> Append(st, job)]

\* The tail of _moveQueue after the job settled: release the flag, run
\* _moveQueue again. Both statements follow the try/catch, so they run
\* whatever the body's `result` was.
releaseOnly(result, q, b, st) ==
    [queue |-> q, isIdle |-> TRUE, body |-> b, started |-> st]
advanceOnSuccess(result, q, b, st) ==
    IF result = "ok"
    THEN moveQueue(q, TRUE, b, st)
    ELSE [queue |-> q, isIdle |-> FALSE, body |-> b, started |-> st]
advance(result, q, b, st) == moveQueue(q, TRUE, b, st)

\* try/catch of _moveQueue: which continuation a body's result reaches.
alwaysResolve(result) == "resolve"
continuation(result) == IF result = "ok" THEN "resolve" ELSE "reject"

\* The job's body ended with `result`: settle, then advance.
settle(job, result) ==
    LET m == advance(result, queue, [body EXCEPT ![job] = "returned"], started)
    IN  /\ body[job] \in Executing
        /\ outcome' = [outcome EXCEPT ![job] = result]
        /\ resolveCalls' = [resolveCalls EXCEPT
                              ![job] = @ + (IF continuation(result) = "resolve" THEN 1 ELSE 0)]
        /\ rejectCalls' = [rejectCalls EXCEPT
                              ![job] = @ + (IF continuation(result) = "reject" THEN 1 ELSE 0)]
        /\ finished' = Append(finished, job)
        /\ queue' = m.queue
        /\ isIdle' = m.isIdle
        /\ body' = m.body
        /\ started' = m.started

processRequest ==
    /\ numJobs < MaxJobs
    /\ LET job == numJobs + 1
           m == moveQueue(Append(queue, job), isIdle, body, started)
       IN  /\ numJobs' = job
           /\ queue' = m.queue
           /\ isIdle' = m.isIdle
           /\ body' = m.body
           /\ started' = m.started
    /\ UNCHANGED <<sogni, resolveCalls, rejectCalls, outcome, finished>>
    /\ UNCHANGED <<fvars, hvars>>

\* initSogni: createInstance and login succeed
initSogniOk ==
    /\ sogni = "pending"
    /\ sogni' = "ready"
    /\ UNCHANGED <<queue, isIdle, body, numJobs, resolveCalls, rejectCalls,
                   outcome, started, finished>>
    /\ UNCHANGED <<fvars, hvars>>

\* initSogni: createInstance or login rejects
initSogniFail ==
    /\ sogni = "pending"
    /\ sogni' = "failed"
    /\ UNCHANGED <<queue, isIdle, body, numJobs, resolveCalls, rejectCalls,
                   outcome, started, finished>>
    /\ UNCHANGED <<fvars, hvars>>

\* `await this.sogni` resumes with the client
clientReady(job) ==
    /\ body[job] = "sogni"
    /\ sogni = "ready"
    /\ body' = [body EXCEPT ![job] = "create"]
    /\ UNCHANGED <<queue, isIdle, sogni, numJobs, resolveCalls, rejectCalls,
                   outcome, started, finished>>
    /\ UNCHANGED <<fvars, hvars>>

\* `await this.sogni` throws
clientFailed(job) ==
    /\ body[job] = "sogni"
    /\ sogni = "failed"
    /\ settle(job, "fail")
    /\ UNCHANGED <<sogni, numJobs>>
    /\ UNCHANGED <<fvars, hvars>>

\* `await sogni.projects.create(job.params)` resumes with the project
createOk(job) ==
    /\ body[job] = "create"
    /\ body' = [body EXCEPT ![job] = "wait"]
    /\ UNCHANGED <<queue, isIdle, sogni, numJobs, resolveCalls, rejectCalls,
                   outcome, started, finished>>
    /\ UNCHANGED <<fvars, hvars>>

\* `await sogni.projects.create(job.params)` throws
createFail(job) ==
    /\ body[job] = "create"
    /\ settle(job, "fail")
    /\ UNCHANGED <<sogni, numJobs>>
    /\ UNCHANGED <<fvars, hvars>>

\* `await project.waitForCompletion()` resumes with the images
waitOk(job) ==
    /\ body[job] = "wait"
    /\ settle(job, "ok")
    /\ UNCHANGED <<sogni, numJobs>>
    /\ UNCHANGED <<fvars, hvars>>

\* `await project.waitForCompletion()` throws
waitFail(job) ==
    /\ body[job] = "wait"
    /\ settle(job, "fail")
    /\ UNCHANGED <<sogni, numJobs>>
    /\ UNCHANGED <<fvars, hvars>>

QInit ==
    /\ queue = <<>>
    /\ isIdle = TRUE
    /\ sogni = "pending"
    /\ body = [j \in Jobs |-> "none"]
    /\ numJobs = 0
    /\ resolveCalls = [j \in Jobs |-> 0]
    /\ rejectCalls = [j \in Jobs |-> 0]
    /\ outcome = [j \in Jobs |-> "none"]
    /\ started = <<>>
    /\ finished = <<>>

backend(job) ==
    \/ clientReady(job)
    \/ clientFailed(job)
    \/ createOk(job)
    \/ createFail(job)
    \/ waitOk(job)
    \/ waitFail(job)

QNext ==
    \/ processRequest
    \/ initSogniOk
    \/ initSogniFail
    \/ \E job \in Jobs : clientReady(job)
    \/ \E job \in Jobs : clientFailed(job)
    \/ \E job \in Jobs : createOk(job)
    \/ \E job \in Jobs : createFail(job)
    \/ \E job \in Jobs : waitOk(job)
    \/ \E job \in Jobs : waitFail(job)


\* ------------------------------------------------- background removal


\* Sizes of the images explored: up to MaxWidth x MaxHeight with at most
\* MaxPixels pixels.
MaxWidth == 3
MaxHeight == 3
MaxPixels == 9

\* const tolerance = 30
Tolerance == 30

Coords(w, h) == (0..(w - 1)) \X (0..(h - 1))

\* A pixel is its four bytes of bitmap.data, <<r, g, b, a>>; getPixelColor
\* packs them into one 32-bit number and intToRGBA unpacks the same bytes.
Black == <<0, 0, 0, 255>>
AtTolerance == <<18, 24, 0, 255>>
PastTolerance == <<18, 24, 1, 255>>
White == <<255, 255, 255, 255>>

\* Colours of the explored images: squared distances 900 (exactly
\* Tolerance away), 901 and 1.
Palette == {Black, AtTolerance, PastTolerance}

\* 4x4 white image with a 2x2 black centre, filled at tolerance 10.
Example ==
    [width     |-> 4,
     height    |-> 4,
     tolerance |-> 10,
     pixels    |-> [p \in Coords(4, 4) |->
                      IF p[1] \in {1, 2} /\ p[2] \in {1, 2} THEN Black ELSE White]]

\* The sum under Math.sqrt.
sqDistance(px, bg) ==
    (px[1] - bg[1]) * (px[1] - bg[1])
    + (px[2] - bg[2]) * (px[2] - bg[2])
    + (px[3] - bg[3]) * (px[3] - bg[3])

\* distance <= tolerance. Math.sqrt is correctly rounded and monotonic, the
\* sum is an integer below 2^53 and the tolerance is an integer, so the
\* comparison of the root is the comparison of the squares.
strictlyWithin(px, bg, tol) == sqDistance(px, bg) < tol * tol
withinTolerance(px, bg, tol) == sqDistance(px, bg) <= tol * tol

\* image.setPixelColor(0x00000000, x, y): the four bytes written over `px`.
alphaOnly(px) == <<px[1], px[2], px[3], 0>>
setTransparent(px) == <<0, 0, 0, 0>>

\* The queue after the two seeding loops: top and bottom edge for every x,
\* then left and right edge for the rows between.
topBottomOnly(w, h) ==
    [i \in 1..(2 * w) |->
        IF i % 2 = 1 THEN <<(i - 1) \div 2, 0>> ELSE <<(i - 2) \div 2, h - 1>>]
edgePixels(w, h) ==
    [i \in 1..(2 * w) |->
        IF i % 2 = 1 THEN <<(i - 1) \div 2, 0>> ELSE <<(i - 2) \div 2, h - 1>>]
    \o [i \in 1..(IF h > 2 THEN 2 * (h - 2) ELSE 0) |->
        IF i % 2 = 1 THEN <<0, (i + 1) \div 2>> ELSE <<w - 1, i \div 2>>]

\* directions: left, right, up, down
directions == << <<-1, 0>>, <<1, 0>>, <<0, -1>>, <<0, 1>> >>

inBounds(c, w, h) == c[1] >= 0 /\ c[1] < w /\ c[2] >= 0 /\ c[2] < h

\* The coordinates the inner for loop pushes for pixel p: its neighbours
\* inside the image that are not marked visited, in the order of directions.
visitedNeighbours(p, w, h, vis) ==
    LET cand == [i \in 1..4 |-> <<p[1] + directions[i][1], p[2] + directions[i][2]>>]
        keep(c) == inBounds(c, w, h) /\ c \in vis
    IN  SelectSeq(cand, keep)
unvisitedNeighbours(p, w, h, vis) ==
    LET cand == [i \in 1..4 |-> <<p[1] + directions[i][1], p[2] + directions[i][2]>>]
        keep(c) == inBounds(c, w, h) /\ c \notin vis
    IN  SelectSeq(cand, keep)

\* if (visited[y][x]) continue
neverProcessed(p, vis) == FALSE
alreadyProcessed(p, vis) == p \in vis

FloodOff ==
    /\ fpc = "off"
    /\ width = 0
    /\ height = 0
    /\ tolerance = 0
    /\ orig = <<>>
    /\ image = <<>>
    /\ bgRGBA = <<>>
    /\ visited = {}
    /\ floodQueue = <<>>
    /\ cleared = {}
    /\ tests = <<>>
    /\ frontOnly = TRUE

\* The rendered image handed to Jimp.read, before it is decoded.
FloodInit ==
    /\ fpc = "read"
    /\ \/ /\ \E w \in 1..MaxWidth, h \in 1..MaxHeight :
               /\ w * h <= MaxPixels
               /\ width = w
               /\ height = h
               /\ orig \in [Coords(w, h) -> Palette]
          /\ tolerance = Tolerance
       \/ /\ width = Example.width
          /\ height = Example.height
          /\ orig = Example.pixels
          /\ tolerance = Example.tolerance
    /\ image = orig
    /\ bgRGBA = <<>>
    /\ visited = {}
    /\ floodQueue = <<>>
    /\ cleared = {}
    /\ tests = [p \in DOMAIN orig |-> 0]
    /\ frontOnly = TRUE

\* Jimp.read resolves; sample the background, clear the mask, seed the queue.
readImage ==
    /\ fpc = "read"
    /\ fpc' = "loop"
    /\ bgRGBA' = image[<<0, 0>>]
    /\ visited' = {}
    /\ floodQueue' = edgePixels(width, height)
    /\ UNCHANGED <<width, height, tolerance, orig, image, cleared, tests, frontOnly>>
    /\ UNCHANGED <<qvars, hvars>>

\* Jimp.read rejects: the inner catch answers 500.
readFail ==
    /\ fpc = "read"
    /\ fpc' = "error"
    /\ UNCHANGED <<width, height, tolerance, orig, image, bgRGBA, visited,
                   floodQueue, cleared, tests, frontOnly>>
    /\ UNCHANGED <<qvars, hvars>>

\* The colour a pixel is compared with: the one sampled before the loop.
liveReference(img, bg) == img[<<0, 0>>]
reference(img, bg) == bg

\* The body of the while loop for the coordinate p just taken from the
\* queue, `rest` being what is left of it: the fill's variables afterwards.
fillStep(p, rest, s) ==
    IF ~inBounds(p, width, height) \/ alreadyProcessed(p, s.visited)
    THEN [s EXCEPT !.floodQueue = rest]
    ELSE LET vis == s.visited \cup {p}
         IN  IF withinTolerance(s.image[p], reference(s.image, bgRGBA), tolerance)
             THEN [visited    |-> vis,
                   tests      |-> [s.tests EXCEPT ![p] = @ + 1],
                   image      |-> [s.image EXCEPT ![p] = setTransparent(@)],
                   cleared    |-> s.cleared \cup {p},
                   floodQueue |-> rest \o unvisitedNeighbours(p, width, height, vis)]
             ELSE [visited    |-> vis,
                   tests      |-> [s.tests EXCEPT ![p] = @ + 1],
                   image      |-> s.image,
                   cleared    |-> s.cleared,
                   floodQueue |-> rest]

fillState ==
    [visited |-> visited, tests |-> tests, image |-> image, cleared |-> cleared,
     floodQueue |-> floodQueue]

\* One iteration of the while loop: queue.shift(), then the body.
loopIter ==
    /\ fpc = "loop"
    /\ Len(floodQueue) > 0
    /\ LET s == fillStep(Head(floodQueue), Tail(floodQueue), fillState)
       IN  /\ visited' = s.visited
           /\ tests' = s.tests
           /\ image' = s.image
           /\ cleared' = s.cleared
           /\ floodQueue' = s.floodQueue
    /\ UNCHANGED <<fpc, width, height, tolerance, orig, bgRGBA, frontOnly>>
    /\ UNCHANGED <<qvars, hvars>>

\* The whole loop as the code runs it, from the fill's variables s.
RECURSIVE fifoRun(_)
fifoRun(s) ==
    IF Len(s.floodQueue) = 0
    THEN s
    ELSE fifoRun(fillStep(Head(s.floodQueue), Tail(s.floodQueue), s))

\* The loop with the worklist taken in another order: the body runs for
\* the i-th waiting coordinate instead of the first.
loopIterAt(i) ==
    /\ fpc = "loop"
    /\ i \in DOMAIN floodQueue
    /\ LET rest == SubSeq(floodQueue, 1, i - 1) \o SubSeq(floodQueue, i + 1, Len(floodQueue))
           s == fillStep(floodQueue[i], rest, fillState)
       IN  /\ visited' = s.visited
           /\ tests' = s.tests
           /\ image' = s.image
           /\ cleared' = s.cleared
           /\ floodQueue' = s.floodQueue
    /\ frontOnly' = (frontOnly /\ i = 1)
    /\ UNCHANGED <<fpc, width, height, tolerance, orig, bgRGBA>>
    /\ UNCHANGED <<qvars, hvars>>

\* The queue is empty: encode the PNG and answer.
loopEnd ==
    /\ fpc = "loop"
    /\ Len(floodQueue) = 0
    /\ fpc' = "done"
    /\ UNCHANGED <<width, height, tolerance, orig, image, bgRGBA, visited,
                   floodQueue, cleared, tests, frontOnly>>
    /\ UNCHANGED <<qvars, hvars>>

FloodNext ==
    \/ readImage
    \/ readFail
    \/ loopIter
    \/ loopEnd

\* ------------------------------------------------------ GET / handler

\* Number of GET / requests explored, and how far the clock runs.
MaxRequests == 2
MaxTicks == 3

Requests == 1..MaxRequests

\* Two of the animals; the guide image of animal a is cached under
\* blurred_<a>.png.
Keys == {"cat", "dog"}

\* new NodeCache({ stdTTL: 3600 }), in seconds
stdTTL == 3600

now == clock * (stdTTL \div 2)

NoEntry == <<>>
NoBuffer == <<>>

\* NodeCache's expiry test: an entry with expiry time t is dropped once t
\* is in the past.
alwaysExpired(t, time) == TRUE
neverExpired(t, time) == FALSE
isExpired(t, time) == t < time

\* cache.get(key): <<the value or NoBuffer, the cache afterwards>>; an
\* expired entry is deleted by the get that finds it.
cacheGet(c, k, time) ==
    IF c[k] = NoEntry THEN <<NoBuffer, c>>
    ELSE IF isExpired(c[k].t, time) THEN <<NoBuffer, [c EXCEPT ![k] = NoEntry]>>
    ELSE <<c[k].v, c>>

\* cache.set(key, value): the entry replaces any earlier one and expires
\* stdTTL after the write.
cacheSetIfAbsent(c, k, v, time) ==
    IF c[k] = NoEntry THEN [c EXCEPT ![k] = [v |-> v, t |-> time + stdTTL]] ELSE c
cacheSet(c, k, v, time) == [c EXCEPT ![k] = [v |-> v, t |-> time + stdTTL]]

\* The buffer sharp produces for request r: the blurred bytes of its guide
\* image, tagged with the call that made them.
blurred(r, k, time) == [key |-> k, by |-> r, at |-> time]

\* The cache after blurImage's catch block: the error is logged and rethrown.
cachePartial(c, r, k, time) == cacheSet(c, k, blurred(r, k, time), time)
cacheAfterBlurError(c, r, k, time) == c

\* The handler after initializeModelIfNeeded returned: validation, cache
\* lookup, then blurImage up to its await or renderWithGuideImage up to its
\* await.
proceed(r) ==
    IF ~valid[r]
    THEN /\ resp' = [resp EXCEPT ![r] = "400"]
         /\ hpc' = [hpc EXCEPT ![r] = "answered"]
         /\ UNCHANGED <<cache, sharpCalls, held, lookup>>
    ELSE LET inHandler == cacheGet(cache, animal[r], now)
             inBlurImage == cacheGet(inHandler[2], animal[r], now)
             answered == {q \in Requests : hpc[q] = "answered"}
             found(what) == [lookup EXCEPT ![r] = [result |-> what, prior |-> answered]]
         IN  IF inHandler[1] # NoBuffer
             THEN /\ held' = [held EXCEPT ![r] = inHandler[1]]
                  /\ cache' = inHandler[2]
                  /\ hpc' = [hpc EXCEPT ![r] = "render"]
                  /\ lookup' = found("hit")
                  /\ UNCHANGED <<sharpCalls, resp>>
             ELSE IF inBlurImage[1] # NoBuffer
             THEN /\ held' = [held EXCEPT ![r] = inBlurImage[1]]
                  /\ cache' = inBlurImage[2]
                  /\ hpc' = [hpc EXCEPT ![r] = "render"]
                  /\ lookup' = found("hit")
                  /\ UNCHANGED <<sharpCalls, resp>>
             ELSE /\ cache' = inBlurImage[2]
                  /\ sharpCalls' = [sharpCalls EXCEPT ![animal[r]] = @ + 1]
                  /\ hpc' = [hpc EXCEPT ![r] = "blur"]
                  /\ lookup' = found(IF cache[animal[r]] = NoEntry
                                     THEN "absent" ELSE "expired")
                  /\ UNCHANGED <<held, resp>>

\* A request arrives: the handler runs to the await of getCurrentModel.
arrive ==
    /\ alive
    /\ numReqs < MaxRequests
    /\ \E a \in Keys, ok \in BOOLEAN :
          /\ animal' = [animal EXCEPT ![numReqs + 1] = a]
          /\ valid' = [valid EXCEPT ![numReqs + 1] = ok]
    /\ numReqs' = numReqs + 1
    /\ hpc' = [hpc EXCEPT ![numReqs + 1] = "getModel"]
    /\ UNCHANGED <<lookup, alive, clock, cache, sharpCalls, held, resp>>
    /\ UNCHANGED <<qvars, fvars>>

\* getCurrentModel returns the model wanted
getModelSame(r) ==
    /\ alive
    /\ hpc[r] = "getModel"
    /\ proceed(r)
    /\ UNCHANGED <<alive, clock, numReqs, animal, valid>>
    /\ UNCHANGED <<qvars, fvars>>

\* getCurrentModel returns another model: post the option
getModelOther(r) ==
    /\ alive
    /\ hpc[r] = "getModel"
    /\ hpc' = [hpc EXCEPT ![r] = "setModel"]
    /\ UNCHANGED <<lookup, alive, clock, cache, sharpCalls, numReqs, animal, valid, held, resp>>
    /\ UNCHANGED <<qvars, fvars>>

\* the post of sd_model_checkpoint succeeds
setModelOk(r) ==
    /\ alive
    /\ hpc[r] = "setModel"
    /\ proceed(r)
    /\ UNCHANGED <<alive, clock, numReqs, animal, valid>>
    /\ UNCHANGED <<qvars, fvars>>

\* getCurrentModel or the post throws: the catch of initializeModelIfNeeded
\* calls process.exit(1)
modelFail(r) ==
    /\ alive
    /\ hpc[r] \in {"getModel", "setModel"}
    /\ alive' = FALSE
    /\ hpc' = [hpc EXCEPT ![r] = "exit"]
    /\ UNCHANGED <<lookup, clock, cache, sharpCalls, numReqs, animal, valid, held, resp>>
    /\ UNCHANGED <<qvars, fvars>>

\* sharp(...).blur(...).toBuffer() resolves: set the cache, call
\* renderWithGuideImage
blurOk(r) ==
    /\ alive
    /\ hpc[r] = "blur"
    /\ cache' = cacheSet(cache, animal[r], blurred(r, animal[r], now), now)
    /\ held' = [held EXCEPT ![r] = blurred(r, animal[r], now)]
    /\ hpc' = [hpc EXCEPT ![r] = "render"]
    /\ UNCHANGED <<lookup, alive, clock, sharpCalls, numReqs, animal, valid, resp>>
    /\ UNCHANGED <<qvars, fvars>>

\* sharp rejects: blurImage rethrows, the handler answers 500
blurFail(r) ==
    /\ alive
    /\ hpc[r] = "blur"
    /\ cache' = cacheAfterBlurError(cache, r, animal[r], now)
    /\ resp' = [resp EXCEPT ![r] = "500 guide"]
    /\ hpc' = [hpc EXCEPT ![r] = "answered"]
    /\ UNCHANGED <<lookup, alive, clock, sharpCalls, numReqs, animal, valid, held>>
    /\ UNCHANGED <<qvars, fvars>>

\* the img2img post returns an image: Jimp.read starts
renderOk(r) ==
    /\ alive
    /\ hpc[r] = "render"
    /\ hpc' = [hpc EXCEPT ![r] = "decode"]
    /\ UNCHANGED <<lookup, alive, clock, cache, sharpCalls, numReqs, animal, valid, held, resp>>
    /\ UNCHANGED <<qvars, fvars>>

\* the post rejects or returns no image
renderFail(r) ==
    /\ alive
    /\ hpc[r] = "render"
    /\ resp' = [resp EXCEPT ![r] = "500 render"]
    /\ hpc' = [hpc EXCEPT ![r] = "answered"]
    /\ UNCHANGED <<lookup, alive, clock, cache, sharpCalls, numReqs, animal, valid, held>>
    /\ UNCHANGED <<qvars, fvars>>

\* Jimp.read resolves: the flood fill runs, getBufferAsync starts
decodeOk(r) ==
    /\ alive
    /\ hpc[r] = "decode"
    /\ hpc' = [hpc EXCEPT ![r] = "encode"]
    /\ UNCHANGED <<lookup, alive, clock, cache, sharpCalls, numReqs, animal, valid, held, resp>>
    /\ UNCHANGED <<qvars, fvars>>

\* getBufferAsync resolves: the PNG is returned
encodeOk(r) ==
    /\ alive
    /\ hpc[r] = "encode"
    /\ resp' = [resp EXCEPT ![r] = "200 png"]
    /\ hpc' = [hpc EXCEPT ![r] = "answered"]
    /\ UNCHANGED <<lookup, alive, clock, cache, sharpCalls, numReqs, animal, valid, held>>
    /\ UNCHANGED <<qvars, fvars>>

\* Jimp.read or getBufferAsync rejects: the inner catch answers 500
imageFail(r) ==
    /\ alive
    /\ hpc[r] \in {"decode", "encode"}
    /\ resp' = [resp EXCEPT ![r] = "500 image"]
    /\ hpc' = [hpc EXCEPT ![r] = "answered"]
    /\ UNCHANGED <<lookup, alive, clock, cache, sharpCalls, numReqs, animal, valid, held>>
    /\ UNCHANGED <<qvars, fvars>>

\* Time passes.
tick ==
    /\ alive
    /\ clock < MaxTicks
    /\ clock' = clock + 1
    /\ UNCHANGED <<lookup, alive, cache, sharpCalls, numReqs, hpc, animal, valid, held, resp>>
    /\ UNCHANGED <<qvars, fvars>>

\* NodeCache's periodic check deletes the expired entries.
checkData ==
    /\ alive
    /\ \E k \in Keys : cache[k] # NoEntry /\ isExpired(cache[k].t, now)
    /\ cache' = [k \in Keys |->
                   IF cache[k] # NoEntry /\ isExpired(cache[k].t, now)
                   THEN NoEntry ELSE cache[k]]
    /\ UNCHANGED <<lookup, alive, clock, sharpCalls, numReqs, hpc, animal, valid, held, resp>>
    /\ UNCHANGED <<qvars, fvars>>

HandlerOff ==
    /\ alive = TRUE
    /\ clock = 0
    /\ cache = [k \in Keys |-> NoEntry]
    /\ sharpCalls = [k \in Keys |-> 0]
    /\ numReqs = 0
    /\ hpc = [r \in Requests |-> "none"]
    /\ animal = [r \in Requests |-> "cat"]
    /\ valid = [r \in Requests |-> TRUE]
    /\ held = [r \in Requests |-> NoBuffer]
    /\ resp = [r \in Requests |-> "none"]
    /\ lookup = [r \in Requests |-> [result |-> "none", prior |-> {}]]

\* The server after init(): listening, empty cache.
HandlerInit == HandlerOff

HandlerNext ==
    \/ arrive
    \/ tick
    \/ checkData
    \/ \E r \in Requests : getModelSame(r)
    \/ \E r \in Requests : getModelOther(r)
    \/ \E r \in Requests : setModelOk(r)
    \/ \E r \in Requests : modelFail(r)
    \/ \E r \in Requests : blurOk(r)
    \/ \E r \in Requests : blurFail(r)
    \/ \E r \in Requests : renderOk(r)
    \/ \E r \in Requests : renderFail(r)
    \/ \E r \in Requests : decodeOk(r)
    \/ \E r \in Requests : encodeOk(r)
    \/ \E r \in Requests : imageFail(r)

vars == <<qvars, fvars, hvars>>

Init == QInit /\ FloodOff /\ HandlerOff

Next == QNext

Spec == Init /\ [][Next]_vars

\* Background removal of one rendered image, the Creator untouched.
FInit == QInit /\ FloodInit /\ HandlerOff

FloodSpec == FInit /\ [][FloodNext]_vars

\* The fill always taking a step until it has answered.
FloodFairSpec == FloodSpec /\ WF_vars(FloodNext)

\* The same fill with each coordinate taken from either end of the
\* worklist: as a queue, as a stack, or any mixture of the two; on images
\* of two colours that do not match each other.
OrderPalette == {Black, PastTolerance}

OrderInit ==
    /\ fpc = "read"
    /\ \E w \in 1..MaxWidth, h \in 1..MaxHeight :
          /\ w * h <= MaxPixels
          /\ width = w
          /\ height = h
          /\ orig \in [Coords(w, h) -> OrderPalette]
    /\ tolerance = Tolerance
    /\ image = orig
    /\ bgRGBA = <<>>
    /\ visited = {}
    /\ floodQueue = <<>>
    /\ cleared = {}
    /\ tests = [p \in DOMAIN orig |-> 0]
    /\ frontOnly = TRUE

OInit == QInit /\ OrderInit /\ HandlerOff

OrderNext ==
    \/ readImage
    \/ readFail
    \/ \E i \in {1, Len(floodQueue)} : loopIterAt(i)
    \/ loopEnd

OrderSpec == OInit /\ [][OrderNext]_vars

\* The GET / handler serving requests, the Creator and the fill untouched.
HInit == QInit /\ FloodOff /\ HandlerInit

HandlerSpec == HInit /\ [][HandlerNext]_vars

\* Every backend call returns: the client promise settles and each await of
\* a running body resumes.
FairSpec ==
    /\ Spec
    /\ WF_vars(initSogniOk \/ initSogniFail)
    /\ \A job \in Jobs : WF_vars(backend(job))

\* ------------------------------------------------------- Creator: claims

Running == {j \in Jobs : body[j] \in Executing}

Settled(j) == resolveCalls[j] + rejectCalls[j] >= 1

InQueue(j) == \E i \in DOMAIN queue : queue[i] = j

\* C1: at most one job's body is executing against the backend at any
\* time, whatever the interleaving of processRequest calls and backend
\* completions: a processRequest that arrives while a body runs never
\* starts a second one.
QueueExclusive == Cardinality(Running) <= 1

\* C1 witness: two processRequest calls interleaved with a running body;
\* the first job is past its first await, the second one waits.
QueueExclusiveWitness ==
    /\ numJobs >= 2
    /\ body[1] = "create"
    /\ queue = <<2>>

\* C2: bodies start and finish in the order of the processRequest calls
\* (job numbers are given in call order), and when a job's body starts the
\* continuation of every job enqueued before it has been called.
QueueFifo ==
    /\ \A i \in DOMAIN started : started[i] = i
    /\ \A i \in DOMAIN finished : finished[i] = i
    /\ \A b \in Jobs : body[b] # "none" => \A a \in 1..(b - 1) : Settled(a)

\* C2 witness: three jobs were enqueued before the first finished; the
\* first two have finished and the third is running.
QueueFifoWitness ==
    /\ finished = <<1, 2>>
    /\ started = <<1, 2, 3>>
    /\ body[3] \in Executing

\* C3: a job whose body completed had exactly one continuation called,
\* once: resolve if the body succeeded, reject if it failed; no other job
\* had a continuation called, and a job that left the pending sequence
\* (its body started) is never in it again.
SettledExactlyOnce ==
    \A j \in Jobs :
        /\ body[j] = "returned" =>
              /\ resolveCalls[j] + rejectCalls[j] = 1
              /\ outcome[j] = "ok" <=> resolveCalls[j] = 1
              /\ outcome[j] = "fail" <=> rejectCalls[j] = 1
        /\ body[j] # "returned" => resolveCalls[j] = 0 /\ rejectCalls[j] = 0
        /\ body[j] # "none" => ~InQueue(j)

\* C3 witness: one job resolved and another rejected.
SettledExactlyOnceWitness ==
    /\ outcome[1] = "ok"
    /\ outcome[2] = "fail"
    /\ body[2] = "returned"

\* The queue's move when the running body ends: the head of the pending
\* sequence starts in the same step, or the queue becomes idle.
Advances ==
    IF queue = <<>>
    THEN isIdle' /\ queue' = <<>> /\ Running' = {}
    ELSE ~isIdle' /\ queue' = Tail(queue) /\ Running' = {Head(queue)}

\* C4: a step in which a job's body fails calls that job's reject
\* continuation and nothing else of any job, releases the queue, and starts
\* the next pending job at once.
FaultIsolated ==
    [][\A j \in Jobs :
         (outcome[j] = "none" /\ outcome'[j] = "fail") =>
            /\ rejectCalls'[j] = rejectCalls[j] + 1
            /\ resolveCalls'[j] = resolveCalls[j]
            /\ \A k \in Jobs \ {j} :
                  /\ resolveCalls'[k] = resolveCalls[k]
                  /\ rejectCalls'[k] = rejectCalls[k]
                  /\ outcome'[k] = outcome[k]
            /\ Advances]_vars

\* C4 witness: job 1 resolved, job 2 failed, job 3 (enqueued while job 2
\* ran) resolved after it.
FaultIsolatedWitness ==
    /\ outcome[1] = "ok"
    /\ outcome[2] = "fail"
    /\ outcome[3] = "ok"
    /\ resolveCalls[3] = 1

NoRetry == \A i, k \in DOMAIN started : started[i] = started[k] => i = k

\* C5: when every backend call returns, every job passed to processRequest
\* has a continuation called, the queue advances whenever a body ends, no
\* body starts twice, and the queue ends idle with nothing pending.
QueueProgress ==
    /\ \A j \in Jobs : (numJobs >= j) ~> Settled(j)
    /\ [][\A j \in Jobs : (outcome[j] = "none" /\ outcome'[j] # "none") => Advances]_vars
    /\ []NoRetry
    /\ <>[](isIdle /\ queue = <<>>)

\* C5 witness: the queue is idle again after a failed and a successful
\* job that were pending together.
QueueProgressWitness ==
    /\ numJobs = MaxJobs
    /\ isIdle
    /\ queue = <<>>
    /\ \A j \in Jobs : Settled(j)
    /\ \E j \in Jobs : outcome[j] = "fail"
    /\ \E j \in Jobs : outcome[j] = "ok"

\* C6: between event-loop turns isIdle is false exactly when one body is
\* executing, an idle queue has nothing pending, a processRequest on an
\* idle queue starts its job in the same step and a processRequest on a
\* busy queue only appends.
IdleBusy ==
    /\ [](isIdle <=> Running = {})
    /\ [](~isIdle <=> Cardinality(Running) = 1)
    /\ [](isIdle => queue = <<>>)
    /\ [][numJobs' = numJobs + 1 =>
            IF isIdle
            THEN ~isIdle' /\ Running' = {numJobs'} /\ queue' = queue
            ELSE ~isIdle' /\ Running' = Running /\ queue' = Append(queue, numJobs')]_vars

\* C6 witness: a busy queue with a running body and two pending jobs.
IdleBusyWitness ==
    /\ ~isIdle
    /\ Cardinality(Running) = 1
    /\ Len(queue) = 2

\* --------------------------------------------- background removal: claims

Pixels == Coords(width, height)

Border ==
    {p \in Pixels : p[1] = 0 \/ p[1] = width - 1 \/ p[2] = 0 \/ p[2] = height - 1}

\* Original colour within tolerance of the original colour of pixel (0,0).
Matching(p) ==
    sqDistance(orig[p], orig[<<0, 0>>]) <= tolerance * tolerance

Adjacent(p, q) ==
    \/ p[1] = q[1] /\ (p[2] = q[2] + 1 \/ q[2] = p[2] + 1)
    \/ p[2] = q[2] /\ (p[1] = q[1] + 1 \/ q[1] = p[1] + 1)

RECURSIVE Grow(_)
Grow(S) ==
    LET more == {p \in Pixels \ S : Matching(p) /\ \E q \in S : Adjacent(p, q)}
    IN  IF more = {} THEN S ELSE Grow(S \cup more)

\* Pixels joined to a border pixel by a 4-connected path of matching pixels.
Reachable == Grow({p \in Border : Matching(p)})

Alpha(p) == image[p][4]

\* C7: when the fill has ended, a pixel was made transparent exactly if a
\* 4-connected path of matching pixels joins it to the border; every other
\* pixel keeps its alpha. In the 4x4 example at tolerance 10 the 12 border
\* pixels end with alpha 0 and the 4 centre pixels with alpha 255.
FloodReachability ==
    fpc = "done" =>
        /\ cleared = Reachable
        /\ \A p \in Pixels : Alpha(p) = (IF p \in Reachable THEN 0 ELSE orig[p][4])
        /\ (orig = Example.pixels /\ tolerance = Example.tolerance) =>
              /\ \A p \in Border : Alpha(p) = 0
              /\ \A p \in Pixels \ Border : Alpha(p) = 255
              /\ Cardinality(Border) = 12
              /\ Cardinality(Pixels \ Border) = 4

\* C7 witness: a finished fill that removed something and left opaque a
\* pixel of the background colour enclosed by non-matching pixels.
FloodReachabilityWitness ==
    /\ fpc = "done"
    /\ cleared # {}
    /\ \E p \in Pixels : Matching(p) /\ p \notin Reachable /\ Alpha(p) = 255

\* In-bounds neighbours of p, each already visited or waiting in the queue.
Propagated(p) ==
    \A q \in Pixels :
        Adjacent(p, q) => q \in visited \/ \E i \in DOMAIN floodQueue : floodQueue[i] = q

\* C8: a visited pixel at squared distance exactly tolerance^2 from the
\* reference colour is removed and its neighbours are queued; a visited
\* pixel at a greater squared distance keeps its colour, and the step that
\* visits it pushes nothing.
ToleranceInclusive ==
    /\ [](fpc \in {"loop", "done"} =>
            \A p \in visited :
                /\ sqDistance(orig[p], bgRGBA) = tolerance * tolerance =>
                      p \in cleared /\ Alpha(p) = 0 /\ Propagated(p)
                /\ sqDistance(orig[p], bgRGBA) > tolerance * tolerance =>
                      p \notin cleared /\ image[p] = orig[p])
    /\ [][\A p \in visited' \ visited :
             sqDistance(orig[p], bgRGBA) > tolerance * tolerance =>
                 floodQueue' = Tail(floodQueue)]_vars

\* C8 witness: the fill visited a pixel exactly at the tolerance and one
\* just past it (squared distance tolerance^2 + 1).
ToleranceInclusiveWitness ==
    /\ fpc = "loop"
    /\ \E p \in visited : sqDistance(orig[p], bgRGBA) = tolerance * tolerance
    /\ \E p \in visited : sqDistance(orig[p], bgRGBA) = tolerance * tolerance + 1

\* C9 as stated: the R, G and B channels of every pixel stay as they were.
AlphaChannelOnly ==
    fpc \in {"loop", "done"} =>
        \A p \in Pixels :
            /\ image[p][1] = orig[p][1]
            /\ image[p][2] = orig[p][2]
            /\ image[p][3] = orig[p][3]

\* C9, amended: a removed pixel has all four channels 0, and every pixel
\* that is not removed is unchanged.
RemovalWritesZero ==
    fpc \in {"loop", "done"} =>
        \A p \in Pixels :
            image[p] = (IF p \in cleared THEN <<0, 0, 0, 0>> ELSE orig[p])

\* C9 witness: a finished fill that removed a pixel whose colour was not
\* black and kept another pixel.
RemovalWritesZeroWitness ==
    /\ fpc = "done"
    /\ \E p \in cleared : orig[p][1] # 0
    /\ \E p \in Pixels : p \notin cleared

AllMatching == \A p \in Pixels : Matching(p)

\* C10: when every pixel is within tolerance of pixel (0,0), the fill ends
\* with every pixel transparent; the error answer is reached only from a
\* failed decode, with the image untouched.
FloodTotality ==
    /\ (fpc = "done" /\ AllMatching) =>
          cleared = Pixels /\ \A p \in Pixels : Alpha(p) = 0
    /\ fpc = "error" => image = orig /\ visited = {} /\ cleared = {}

\* C10 witness: a finished 3x3 image of one colour, with an interior pixel.
FloodTotalityWitness ==
    /\ fpc = "done"
    /\ width = 3
    /\ height = 3
    /\ \A p \in Pixels : orig[p] = orig[<<0, 0>>]
    /\ Alpha(<<1, 1>>) = 0

\* ------------------------------------------------- GET / handler: claims

\* Requests whose generation call is outstanding at the backend.
AtBackend == {r \in Requests : hpc[r] = "render"}

Answered500(r) == resp[r] \in {"500 guide", "500 render", "500 image"}

\* C11: at most one generation request of this process is outstanding at
\* the backend at any time, whatever the interleaving of GET / requests.
SingleAdmission == Cardinality(AtBackend) <= 1

\* C12: a failure while handling a request with valid parameters never
\* ends the process, and the request it hit is answered with a 500.
EveryFailureAnswered ==
    \A r \in Requests :
        (valid[r] /\ hpc[r] = "exit") => (alive /\ Answered500(r))

\* A step in which request r prepares its guide image: validation passed
\* and the cache was looked up.
Prepares(r) ==
    /\ hpc[r] \in {"getModel", "setModel"}
    /\ hpc'[r] \in {"blur", "render"}

\* A step in which request r's blur completes and is stored.
Stores(r) == hpc[r] = "blur" /\ hpc'[r] = "render"

\* C13: a preparation of k while an entry of k written at most one TTL ago
\* is cached returns that entry's buffer, the buffer the preparation that
\* completed returned, and does not call sharp on the source again.
CacheIdempotent ==
    [][\A r \in Requests :
         LET k == animal[r] IN
         (/\ Prepares(r)
          /\ cache[k] # NoEntry
          /\ now <= cache[k].v.at + stdTTL) =>
            /\ held'[r] = cache[k].v
            /\ held'[r] = held[cache[k].v.by]
            /\ hpc'[r] = "render"
            /\ sharpCalls' = sharpCalls]_vars

\* C13 witness: request 1 was answered; request 2 then took its buffer
\* from the cache, with one sharp call for the image in all.
CacheIdempotentWitness ==
    /\ animal[1] = animal[2]
    /\ lookup[2] = [result |-> "hit", prior |-> {1}]
    /\ held[2] = held[1]
    /\ held[2].by = 1
    /\ sharpCalls[animal[2]] = 1

\* C14: a buffer taken from the cache was written at most one TTL before;
\* a preparation more than one TTL after the write misses and calls sharp
\* again; the entry a completed blur stores expires one TTL after that
\* write.
CacheExpiry ==
    [][\A r \in Requests :
         LET k == animal[r] IN
         /\ (Prepares(r) /\ hpc'[r] = "render") =>
               now <= held'[r].at + stdTTL
         /\ (Prepares(r) /\ cache[k] # NoEntry /\ now > cache[k].v.at + stdTTL) =>
               /\ hpc'[r] = "blur"
               /\ sharpCalls'[k] = sharpCalls[k] + 1
               /\ cache'[k] = NoEntry
         /\ Stores(r) =>
               /\ cache'[k].v.at = now
               /\ cache'[k].t = now + stdTTL]_vars

\* C14 witness: request 2 found the entry of request 1 expired, blurred
\* again and stored an entry that expires one TTL after its own write.
CacheExpiryWitness ==
    /\ animal[1] = animal[2]
    /\ held[1] # NoBuffer
    /\ held[1].by = 1
    /\ lookup[2].result = "expired"
    /\ sharpCalls[animal[2]] = 2
    /\ cache[animal[2]] # NoEntry
    /\ cache[animal[2]].v.by = 2
    /\ cache[animal[2]].v.at > held[1].at + stdTTL
    /\ cache[animal[2]].t = cache[animal[2]].v.at + stdTTL

\* What a get of key k at `time` would return from cache c.
Visible(c, k, time) ==
    IF c[k] = NoEntry \/ c[k].t < time THEN NoBuffer ELSE c[k].v

\* C15: the lookup of a preparation leaves what the cache returns as it
\* was; the step in which a blur fails answers an error and leaves the
\* cache as it was; no entry is ever the work of a failed preparation; a
\* preparation that finds no entry calls sharp again.
NoWriteOnFailure ==
    /\ [](\A k \in Keys :
             cache[k] # NoEntry => resp[cache[k].v.by] # "500 guide")
    /\ [][\A r \in Requests :
            /\ Prepares(r) =>
                  \A k \in Keys : Visible(cache', k, now) = Visible(cache, k, now)
            /\ (hpc[r] = "blur" /\ hpc'[r] = "answered") =>
                  /\ resp'[r] = "500 guide"
                  /\ cache' = cache
                  /\ held'[r] = NoBuffer
            /\ (Prepares(r) /\ cache[animal[r]] = NoEntry) =>
                  /\ hpc'[r] = "blur"
                  /\ sharpCalls'[animal[r]] = sharpCalls[animal[r]] + 1]_vars

\* C15 witness: the blur of request 1 failed and was answered; request 2
\* then found nothing cached for the same image and called sharp again.
NoWriteOnFailureWitness ==
    /\ animal[1] = animal[2]
    /\ resp[1] = "500 guide"
    /\ lookup[2] = [result |-> "absent", prior |-> {1}]
    /\ hpc[2] = "blur"
    /\ sharpCalls[animal[2]] = 2
    /\ cache[animal[2]] = NoEntry

\* C17: a completed blur gives the request its own buffer and makes it the
\* cached value whatever was cached before, leaving other requests'
\* buffers alone; no step of a request changes the entry of another
\* guide image.
LastWriteWins ==
    [][\A r \in Requests :
         /\ Stores(r) =>
               /\ held'[r] = blurred(r, animal[r], now)
               /\ cache'[animal[r]].v = held'[r]
               /\ \A q \in Requests \ {r} : held'[q] = held[q]
         /\ hpc'[r] # hpc[r] =>
               \A k \in Keys \ {animal'[r]} : cache'[k] = cache[k]]_vars

\* C17 witness: requests 1 and 2 for the same image both missed and both
\* blurred; request 2 stored first, request 1 stored last and its buffer is
\* the cached one.
LastWriteWinsWitness ==
    /\ clock = 0
    /\ animal[1] = animal[2]
    /\ lookup[1].result = "absent"
    /\ lookup[2].result = "absent"
    /\ held[1] # NoBuffer
    /\ held[2] # NoBuffer
    /\ held[1].by = 1
    /\ held[2].by = 2
    /\ sharpCalls[animal[1]] = 2
    /\ cache[animal[1]] # NoEntry
    /\ cache[animal[1]].v = held[1]

\* ------------------------------------ background removal: further claims

\* Iterations still possible: an unvisited pixel can be tested once and
\* push at most four coordinates; every other iteration only shortens the
\* queue.
Measure == 5 * Cardinality(Pixels \ visited) + Len(floodQueue)

\* C16: the loop ends, with an empty queue; every pixel's colour is tested
\* at most once, exactly the visited ones once; every coordinate queued or
\* marked lies inside the image.
FillTerminates ==
    /\ (fpc = "loop") ~> (fpc = "done")
    /\ [](fpc = "done" => floodQueue = <<>>)
    /\ [](fpc \in {"loop", "done"} =>
            /\ \A p \in Pixels : tests[p] = (IF p \in visited THEN 1 ELSE 0)
            /\ visited \subseteq Pixels
            /\ \A i \in DOMAIN floodQueue : floodQueue[i] \in Pixels)
    /\ [][(fpc = "loop" /\ fpc' = "loop") => Measure' < Measure]_vars

\* C16 witness: a pixel already tested once is waiting in the queue again.
FillTerminatesWitness ==
    /\ fpc = "loop"
    /\ \E i \in DOMAIN floodQueue :
          floodQueue[i] \in visited /\ tests[floodQueue[i]] = 1

\* What the loop of the code leaves, from the image as decoded.
fifoResult ==
    fifoRun([visited    |-> {},
             tests      |-> [p \in Pixels |-> 0],
             image      |-> orig,
             cleared    |-> {},
             floodQueue |-> edgePixels(width, height)])

OriginalData ==
    /\ [](fpc \in {"loop", "done"} =>
            /\ bgRGBA = orig[<<0, 0>>]
            /\ \A p \in Pixels \ visited : image[p] = orig[p]
            /\ \A p \in visited : p \in cleared <=> Matching(p))
    /\ [][\A p \in visited' \ visited :
            /\ image[p] = orig[p]
            /\ tests'[p] = 1]_vars

\* C19 witness: pixel (0,0) was overwritten and a later pixel was cleared
\* that matches the original colour of (0,0) but not what is stored there
\* now.
OriginalDataWitness ==
    /\ fpc = "loop"
    /\ <<0, 0>> \in cleared
    /\ image[<<0, 0>>] # orig[<<0, 0>>]
    /\ \E p \in cleared :
          /\ p # <<0, 0>>
          /\ ~withinTolerance(orig[p], image[<<0, 0>>], tolerance)

====
